---- MODULE Spec2Model ----
(***************************************************************************)
(* Model of metricbeat/module/kibana/stats/data_xpack.go: the X-Pack       *)
(* monitoring schema (schemaXPackMonitoring and the reporting sub-schemas) *)
(* and eventMappingXPack, which decodes a Kibana stats payload, applies    *)
(* the schema, patches process.memory.resident_set_size_in_bytes, stamps   *)
(* the metadata and hands the event to the reporter.                       *)
(*                                                                         *)
(* The schema engine (libbeat/common/schema, .../mapstriface), MapStr.Put  *)
(* and metricbeat/helper/elastic are not part of the file; they are        *)
(* modelled from the specification's sections 4.1, 4.2 and 6.              *)
(***************************************************************************)
EXTENDS Integers, Sequences, FiniteSets, TLC

(***************************************************************************)
(* Values.  A decoded value is a tagged record [t, v].  Numbers are        *)
(* float64 in the program; here a number is kept in tenths (v = 1235 is    *)
(* 123.5) so that truncation to an integer is a real conversion.           *)
(* A document's v is a function from its keys to values.                   *)
(***************************************************************************)
Null == [t |-> "null", v |-> 0]

Num(x) == [t |-> "num", v |-> x]

Str(s) == [t |-> "str", v |-> s]

Bool(b) == [t |-> "bool", v |-> b]

Doc(f) == [t |-> "doc", v |-> f]

IntV(k) == [t |-> "int", v |-> k]

TimeV(k) == [t |-> "time", v |-> k]

EmptyDoc == <<>>

\* int64(x) of a float64: truncation toward zero (x in tenths).
Trunc(x) == IF x >= 0 THEN x \div 10 ELSE -((-x) \div 10)

\* The value at a dotted path of a document (a function), or "absent".
RECURSIVE Has(_, _)
Has(f, path) ==
    IF path = <<>> THEN TRUE
    ELSE /\ Head(path) \in DOMAIN f
         /\ \/ Len(path) = 1
            \/ /\ f[Head(path)].t = "doc"
               /\ Has(f[Head(path)].v, Tail(path))

RECURSIVE Get(_, _)
Get(f, path) ==
    IF path = <<>> THEN Doc(f)
    ELSE IF Len(path) = 1 THEN f[Head(path)]
    ELSE Get(f[Head(path)].v, Tail(path))

\* f with key k bound to val (k added when new).
With(f, k, val) == [x \in DOMAIN f \cup {k} |-> IF x = k THEN val ELSE f[x]]

Without(f, k) == [x \in DOMAIN f \ {k} |-> f[x]]

\* MapStr.Put(path, val): a direct key write at a dotted path, creating the
\* intermediate documents it needs and keeping the sibling keys; a later
\* write at the same path replaces the earlier one.
RECURSIVE Put(_, _, _)
Put(f, path, val) ==
    IF Len(path) = 1 THEN With(f, Head(path), val)
    ELSE LET k == Head(path)
             sub == IF k \in DOMAIN f /\ f[k].t = "doc" THEN f[k].v ELSE EmptyDoc
         IN  With(f, k, Doc(Put(sub, Tail(path), val)))

(***************************************************************************)
(* Schema description.  A schema is the sequence of its fields in          *)
(* declaration order, each [name, m]: name is the key written to the       *)
(* output, m the mapper.  A mapper's key is its source key, a dotted path  *)
(* kept as the sequence of its fragments.                                  *)
(***************************************************************************)
Optional == TRUE

Required == FALSE

DictOptional == TRUE

F(name, m) == [name |-> name, m |-> m]

cInt(key, opt) == [kind |-> "Int", key |-> key, optional |-> opt, child |-> <<>>]

cFloat(key, opt) == [kind |-> "Float", key |-> key, optional |-> opt, child |-> <<>>]

cStr(key, opt) == [kind |-> "String", key |-> key, optional |-> opt, child |-> <<>>]

cBool(key, opt) == [kind |-> "Bool", key |-> key, optional |-> opt, child |-> <<>>]

cDict(key, child, opt) == [kind |-> "Dict", key |-> key, optional |-> opt, child |-> child]

\* s.Object: the child mappers read the same document; their results are
\* written under the object's name.
sObject(child) == [kind |-> "Object", key |-> <<>>, optional |-> Required, child |-> child]

reportingCsvDict ==
    cDict(<<"csv">>, <<
        F("available", cBool(<<"available">>, Required)),
        F("total", cInt(<<"total">>, Required)) >>, DictOptional)

reportingPrintablePdfDict ==
    cDict(<<"printable_pdf">>, <<
        F("available", cBool(<<"available">>, Required)),
        F("total", cInt(<<"total">>, Required)),
        F("app", cDict(<<"app">>, <<
            F("visualization", cInt(<<"visualization">>, Required)),
            F("dashboard", cInt(<<"dashboard">>, Required)) >>, DictOptional)),
        F("layout", cDict(<<"layout">>, <<
            F("print", cInt(<<"print">>, Required)),
            F("preserve_layout", cInt(<<"preserve_layout">>, Required)) >>, DictOptional))
        >>, DictOptional)

reportingStatusDictRequired ==
    cDict(<<"status">>, <<
        F("completed", cInt(<<"completed">>, Required)),
        F("failed", cInt(<<"failed">>, Required)),
        F("processing", cInt(<<"processing">>, Required)),
        F("pending", cInt(<<"pending">>, Required)) >>, Required)

reportingStatusDict ==
    cDict(<<"status">>, <<
        F("completed", cInt(<<"completed">>, Optional)),
        F("failed", cInt(<<"failed">>, Optional)),
        F("processing", cInt(<<"processing">>, Optional)),
        F("pending", cInt(<<"pending">>, Optional)) >>, DictOptional)

reportingPeriodSchema == <<
    F("_all", cInt(<<"all">>, Required)),
    F("csv", reportingCsvDict),
    F("printable_pdf", reportingPrintablePdfDict),
    F("status", reportingStatusDict) >>

\* RequestsDict is declared in another file of the package (data.go); the
\* schema only names it.  It is taken to be the optional "requests"
\* dictionary with two optional counters.
RequestsDict ==
    cDict(<<"requests">>, <<
        F("disconnects", cInt(<<"disconnects">>, Optional)),
        F("total", cInt(<<"total">>, Optional)) >>, DictOptional)

TotalSchema == << F("total", cInt(<<"total">>, Required)) >>

schemaXPackMonitoring == <<
    F("concurrent_connections", cInt(<<"concurrent_connections">>, Required)),
    F("os", cDict(<<"os">>, <<
        F("load", cDict(<<"load">>, <<
            F("1m", cFloat(<<"1m">>, Required)),
            F("5m", cFloat(<<"5m">>, Required)),
            F("15m", cFloat(<<"15m">>, Required)) >>, Required)),
        F("memory", cDict(<<"memory">>, <<
            F("total_in_bytes", cInt(<<"total_bytes">>, Required)),
            F("free_in_bytes", cInt(<<"free_bytes">>, Required)),
            F("used_in_bytes", cInt(<<"used_bytes">>, Required)) >>, Required)),
        F("uptime_in_millis", cInt(<<"uptime_ms">>, Required)) >>, Required)),
    F("process", cDict(<<"process">>, <<
        F("event_loop_delay", cFloat(<<"event_loop_delay">>, Required)),
        F("memory", cDict(<<"memory">>, <<
            F("heap", cDict(<<"heap">>, <<
                F("total_in_bytes", cInt(<<"total_bytes">>, Required)),
                F("used_in_bytes", cInt(<<"used_bytes">>, Required)),
                F("size_limit", cInt(<<"size_limit">>, Required)) >>, Required))
            >>, Required)),
        F("uptime_in_millis", cInt(<<"uptime_ms">>, Required)) >>, Required)),
    F("requests", RequestsDict),
    F("response_times", cDict(<<"response_times">>, <<
        F("average", cInt(<<"avg_ms">>, Optional)),
        F("max", cInt(<<"max_ms">>, Optional)) >>, DictOptional)),
    F("kibana", cDict(<<"kibana">>, <<
        F("uuid", cStr(<<"uuid">>, Required)),
        F("name", cStr(<<"name">>, Required)),
        F("index", cStr(<<"index">>, Required)),
        F("host", cStr(<<"host">>, Required)),
        F("transport_address", cStr(<<"transport_address">>, Required)),
        F("version", cStr(<<"version">>, Required)),
        F("snapshot", cBool(<<"snapshot">>, Required)),
        F("status", cStr(<<"status">>, Required)) >>, Required)),
    F("usage", cDict(<<"usage">>, <<
        F("index", cStr(<<"kibana", "index">>, Required)),
        F("index_pattern", cDict(<<"kibana", "index_pattern">>, TotalSchema, Required)),
        F("search", cDict(<<"kibana", "search">>, TotalSchema, Required)),
        F("visualization", cDict(<<"kibana", "visualization">>, TotalSchema, Required)),
        F("dashboard", cDict(<<"kibana", "dashboard">>, TotalSchema, Required)),
        F("timelion_sheet", cDict(<<"kibana", "timelion_sheet">>, TotalSchema, Required)),
        F("graph_workspace", cDict(<<"kibana", "graph_workspace">>, TotalSchema, Required)),
        F("xpack", sObject(<<
            F("reporting", cDict(<<"reporting">>, <<
                F("available", cBool(<<"available">>, Required)),
                F("enabled", cBool(<<"enabled">>, Required)),
                F("browser_type", cStr(<<"browser_type">>, Required)),
                F("_all", cInt(<<"all">>, Required)),
                F("csv", reportingCsvDict),
                F("printable_pdf", reportingPrintablePdfDict),
                F("status", reportingStatusDict),
                F("lastDay", cDict(<<"last_day">>, reportingPeriodSchema, DictOptional)),
                F("last7Days", cDict(<<"last_7_days">>, reportingPeriodSchema, DictOptional))
                >>, DictOptional)) >>)) >>, Required)) >>

(***************************************************************************)
(* Schema application (specification 4.1).                                 *)
(***************************************************************************)
FieldError(path, cause) == [path |-> path, cause |-> cause]

\* Whether a present value's kind converts to the leaf's kind.
Convertible(kind, x) ==
    CASE kind = "Int" -> x.t = "num"
      [] kind = "Float" -> x.t = "num"
      [] kind = "String" -> x.t = "str"
      [] kind = "Bool" -> x.t = "bool"
      [] OTHER -> FALSE

Coerce(kind, x) == IF kind = "Int" THEN IntV(Trunc(x.v)) ELSE x

\* What an absent source key contributes to the error list.
AbsentErrsAlways(m, path) == <<FieldError(path, "MissingField")>>

AbsentErrs(m, path) ==
    IF m.optional THEN <<>> ELSE <<FieldError(path, "MissingField")>>

\* The concatenation of the sequences errs[1], ..., errs[n].
RECURSIVE Flatten(_, _)
Flatten(errs, n) == IF n = 0 THEN <<>> ELSE Flatten(errs, n - 1) \o errs[n]

\* The fields visited, given each field's own errors: all of them, a failed
\* field does not end the traversal.
VisitedUntilError(errs) ==
    {i \in DOMAIN errs : \A j \in 1..(i - 1) : errs[j] = <<>>}

Visited(errs) == DOMAIN errs

\* What one field contributes: whether its key is written, the value, and
\* the field's own errors.
Skipped(errs) == [written |-> FALSE, val |-> Null, errs |-> errs]

Written(val) == [written |-> TRUE, val |-> val, errs |-> <<>>]

Nested(sub) == [written |-> TRUE, val |-> Doc(sub.out), errs |-> sub.errs]

\* The output document and the error list of a schema whose fields
\* contributed res[1], ..., res[n], in declaration order.
Combine(schema, res, seen) ==
    [out |-> [k \in {schema[i].name : i \in {j \in seen : res[j].written}} |->
                res[CHOOSE i \in seen : schema[i].name = k].val],
     errs |-> Flatten([i \in DOMAIN res |-> IF i \in seen THEN res[i].errs ELSE <<>>],
                      Len(res))]

\* One field applied to input; error paths are absolute (prefix is the path
\* of input).  A nested dictionary applies its child schema to the
\* sub-document and keeps what it yields, errors included.
RECURSIVE ApplySchema(_, _, _)
RECURSIVE ApplyFields(_, _, _, _)
ApplyValue(m, x, path) ==
    IF m.kind \in {"Dict", "Object"}
    THEN IF x.t = "doc"
         THEN Nested(ApplySchema(m.child, x.v, path))
         ELSE Skipped(<<FieldError(path, "TypeMismatch")>>)
    ELSE IF Convertible(m.kind, x)
         THEN Written(Coerce(m.kind, x))
         ELSE Skipped(<<FieldError(path, "TypeMismatch")>>)

ApplyField(m, input, prefix) ==
    IF ~Has(input, m.key)
    THEN Skipped(AbsentErrs(m, prefix \o m.key))
    ELSE ApplyValue(m, Get(input, m.key), prefix \o m.key)

\* The contributions of the first n fields of schema, in declaration order.
ApplyFields(schema, input, prefix, n) ==
    IF n = 0 THEN <<>>
    ELSE Append(ApplyFields(schema, input, prefix, n - 1),
                ApplyField(schema[n].m, input, prefix))

OwnErrs(res) == [i \in DOMAIN res |-> res[i].errs]

Collect(schema, res) == Combine(schema, res, Visited(OwnErrs(res)))

ApplySchema(schema, input, prefix) ==
    Collect(schema, ApplyFields(schema, input, prefix, Len(schema)))

Nil == [kind |-> "nil", path |-> <<>>, errs |-> <<>>]

\* Schema.Apply: the best-effort output with nil or the aggregate error.
Aggregate(r) ==
    [out |-> r.out,
     err |-> IF r.errs = <<>> THEN Nil
             ELSE [kind |-> "schema", path |-> <<>>, errs |-> r.errs]]

Apply(schema, input) == Aggregate(ApplySchema(schema, input, <<>>))


(***************************************************************************)
(* Payloads.  BasePayload is a complete Kibana stats document; the inputs  *)
(* of the model are BasePayload changed by at most MaxEdits edits, and a   *)
(* few byte strings that are not such a document.                          *)
(***************************************************************************)
ReportingCsv == Doc([available |-> Bool(TRUE), total |-> Num(40)])

ReportingPdf ==
    Doc([available |-> Bool(TRUE), total |-> Num(20),
         app |-> Doc([visualization |-> Num(10), dashboard |-> Num(10)]),
         layout |-> Doc([print |-> Num(10), preserve_layout |-> Num(10)])])

ReportingStatus ==
    Doc([completed |-> Num(50), failed |-> Num(10),
         processing |-> Num(0), pending |-> Num(0)])

ReportingPeriod ==
    Doc([all |-> Num(60), csv |-> ReportingCsv,
         printable_pdf |-> ReportingPdf, status |-> ReportingStatus])

Total(n) == Doc([total |-> Num(n)])

BasePayload == [
    cluster_uuid |-> Str("c1"),
    concurrent_connections |-> Num(75),
    os |-> Doc([
        load |-> Doc(("1m" :> Num(15)) @@ ("5m" :> Num(12)) @@ ("15m" :> Num(9))),
        memory |-> Doc([total_bytes |-> Num(160), free_bytes |-> Num(40),
                        used_bytes |-> Num(120)]),
        uptime_ms |-> Num(99990)]),
    process |-> Doc([
        event_loop_delay |-> Num(3),
        memory |-> Doc([
            heap |-> Doc([total_bytes |-> Num(90), used_bytes |-> Num(75),
                          size_limit |-> Num(140)]),
            resident_set_size_bytes |-> Num(1230)]),
        uptime_ms |-> Num(5550)]),
    requests |-> Doc([disconnects |-> Num(0), total |-> Num(30)]),
    response_times |-> Doc([avg_ms |-> Num(125), max_ms |-> Num(400)]),
    kibana |-> Doc([
        uuid |-> Str("k1"), name |-> Str("kibana"), index |-> Str(".kibana"),
        host |-> Str("localhost"), transport_address |-> Str("localhost:5601"),
        version |-> Str("6.5.0"), snapshot |-> Bool(FALSE), status |-> Str("green")]),
    usage |-> Doc([
        kibana |-> Doc([
            index |-> Str(".kibana"),
            index_pattern |-> Total(10), search |-> Total(20),
            visualization |-> Total(30), dashboard |-> Total(40),
            timelion_sheet |-> Total(0), graph_workspace |-> Total(0)]),
        reporting |-> Doc([
            available |-> Bool(TRUE), enabled |-> Bool(TRUE),
            browser_type |-> Str("chromium"), all |-> Num(60),
            csv |-> ReportingCsv, printable_pdf |-> ReportingPdf,
            status |-> ReportingStatus,
            last_day |-> ReportingPeriod, last_7_days |-> ReportingPeriod])])]


\* The absolute source paths the schema reads.
RECURSIVE SourcePaths(_, _)
SourcePaths(schema, prefix) ==
    UNION {
        (IF schema[i].m.key = <<>> THEN {} ELSE {prefix \o schema[i].m.key})
        \cup SourcePaths(schema[i].m.child, prefix \o schema[i].m.key)
        : i \in DOMAIN schema }

RssPath == <<"process", "memory", "resident_set_size_bytes">>

RECURSIVE DelAt(_, _)
DelAt(f, path) ==
    IF ~Has(f, path) THEN f
    ELSE IF Len(path) = 1 THEN Without(f, Head(path))
    ELSE With(f, Head(path), Doc(DelAt(f[Head(path)].v, Tail(path))))

Front(path) == SubSeq(path, 1, Len(path) - 1)

SetAt(f, path, val) ==
    IF Has(f, Front(path)) /\ Get(f, Front(path)).t = "doc"
    THEN Put(f, path, val) ELSE f

Del(path) == [op |-> "del", path |-> path, val |-> Null]

Set(path, val) == [op |-> "set", path |-> path, val |-> val]

ApplyEdit(f, e) == IF e.op = "del" THEN DelAt(f, e.path) ELSE SetAt(f, e.path, e.val)

RECURSIVE ApplyEdits(_, _)
ApplyEdits(f, es) ==
    IF es = <<>> THEN f ELSE ApplyEdits(ApplyEdit(f, Head(es)), Tail(es))

\* Every schema path removed, nulled or turned into a string; cluster_uuid
\* nulled or turned into a number.
SchemaEdits ==
    LET ps == SourcePaths(schemaXPackMonitoring, <<>>)
    IN  {Del(q) : q \in ps} \cup {Set(q, Null) : q \in ps}
        \cup {Set(q, Str("oops")) : q \in ps}
        \cup {Set(<<"cluster_uuid">>, Null), Set(<<"cluster_uuid">>, Num(10))}

\* The edits that are combined with one another.
CoreEdits == {
    Del(<<"cluster_uuid">>),
    Del(RssPath), Set(RssPath, Str("123")),
    Set(RssPath, Num(1239)), Set(RssPath, Num(-15)),
    Del(<<"response_times">>), Del(<<"usage", "reporting">>),
    Del(<<"usage", "reporting", "last_day">>),
    Del(<<"usage", "reporting", "status">>),
    Del(<<"usage", "kibana", "index_pattern">>),
    Del(<<"kibana", "uuid">>), Set(<<"os", "uptime_ms">>, Bool(TRUE)) }

MaxEdits == 2

MaxTime == 2

EditSeqs ==
    {<<>>} \cup {<<e>> : e \in SchemaEdits}
    \cup UNION {[1..n -> CoreEdits] : n \in 1..MaxEdits}

\* The byte strings handed to eventMappingXPack, each named by the JSON text
\* it holds: no JSON at all, a JSON array, the JSON null, or the object that
\* BasePayload becomes under the edits.
Contents ==
    {[kind |-> k, edits |-> <<>>] : k \in {"garbage", "array", "null"}}
    \cup {[kind |-> "object", edits |-> es] : es \in EditSeqs}

Intervals == {10000, 30000}

Times == 1..MaxTime

(***************************************************************************)
(* eventMappingXPack.                                                      *)
(***************************************************************************)
VARIABLES
    pc,                 \* the position in eventMappingXPack
    content,            \* the content argument
    intervalMs,         \* the intervalMs argument
    data,               \* the decoded document
    kibanaStatsFields,  \* the mapped document
    timestamp,          \* time.Now() as read at line 171
    event,              \* the mb.Event under construction
    ret,                \* the returned error (Nil for nil)
    rErrors,            \* the errors handed to r.Error, in order
    rEvents,            \* the events handed to r.Event, in order
    trace               \* the steps this invocation has run, in order

vars == <<pc, content, intervalMs, data, kibanaStatsFields, timestamp, event,
          ret, rErrors, rEvents, trace>>

NoEvent == [RootFields |-> EmptyDoc, Index |-> ""]

\* json.Unmarshal(content, &data) with data a map[string]interface{}: an
\* error for text that is no JSON or no object, the nil map for null.
Unmarshal(c) ==
    IF c.kind = "object"
    THEN [err |-> Nil, data |-> ApplyEdits(BasePayload, c.edits)]
    ELSE IF c.kind = "null" THEN [err |-> Nil, data |-> EmptyDoc]
    ELSE [err |-> [kind |-> "decode", path |-> <<>>, errs |-> <<>>], data |-> EmptyDoc]

\* elastic.MakeErrorForMissingField: the error attributed to the field.
MissingFieldError(path) == [kind |-> "missing_field", path |-> path, errs |-> <<>>]

\* r.Error(err): the reporter's errors once err is handed to it.
ReportError(r, err) == Append(r, err)

\* elastic.ReportErrorForMissingField(field, elastic.Kibana, r): makes the
\* field's error, reports it to r once and returns it.
ReportErrorForMissingField(path, r) ==
    [err |-> MissingFieldError(path), r |-> ReportError(r, MissingFieldError(path))]

\* elastic.MakeXPackMonitoringIndexName(elastic.Kibana)
MakeXPackMonitoringIndexName == ".monitoring-kibana"

\* err != nil after json.Unmarshal and after Apply.
FailedNever(err) == FALSE

DecodeFailed(err) == err # Nil

ApplyFailed(err) == err # Nil

IsDoc(f, k) == k \in DOMAIN f /\ f[k].t = "doc"

IsNum(f, k) == k \in DOMAIN f /\ f[k].t = "num"

IsStr(f, k) == k \in DOMAIN f /\ f[k].t = "str"

\* The three type assertions of the manual patch: the path of the first one
\* that fails, <<>> when none does.
PatchFailureRssUnchecked(d) ==
    IF ~IsDoc(d, "process") THEN <<"process">>
    ELSE IF ~IsDoc(d["process"].v, "memory") THEN <<"process", "memory">>
    ELSE <<>>

PatchFailure(d) ==
    IF ~IsDoc(d, "process") THEN <<"process">>
    ELSE IF ~IsDoc(d["process"].v, "memory") THEN <<"process", "memory">>
    ELSE IF ~IsNum(d["process"].v["memory"].v, "resident_set_size_bytes")
    THEN <<"process", "memory", "resident_set_size_bytes">>
    ELSE <<>>

\* memory["resident_set_size_bytes"], 0 (the zero value) when the assertion failed.
Rss(d) == IF Has(d, RssPath) /\ Get(d, RssPath).t = "num" THEN Get(d, RssPath).v ELSE 0

\* kibanaStatsFields.Put("process.memory.resident_set_size_in_bytes", int64(rss))
PatchedFieldsReplacingMemory(ksf, rss) ==
    Put(ksf, <<"process">>,
        Doc([memory |-> Doc([resident_set_size_in_bytes |-> IntV(Trunc(rss))])]))

PatchedFields(ksf, rss) ==
    Put(ksf, <<"process", "memory", "resident_set_size_in_bytes">>, IntV(Trunc(rss)))

\* kibanaStatsFields.Put("timestamp", timestamp)
StampedFields(ksf, t) == Put(ksf, <<"timestamp">>, TimeV(t))

\* data["cluster_uuid"].(string): whether the assertion holds; it panics when not.
ClusterUuidIsString(d) == IsStr(d, "cluster_uuid")

\* event.RootFields
RootFieldsNested(d, t, i, ksf) == [
    timestamp |-> TimeV(t),
    interval_ms |-> IntV(i),
    type |-> Str("kibana_stats"),
    kibana_stats |-> Doc(Put(ksf, <<"cluster_uuid">>, d["cluster_uuid"]))]

RootFields(d, t, i, ksf) == [
    cluster_uuid |-> d["cluster_uuid"],
    timestamp |-> TimeV(t),
    interval_ms |-> IntV(i),
    type |-> Str("kibana_stats"),
    kibana_stats |-> Doc(ksf)]

Init ==
    /\ pc = "idle"
    /\ content = [kind |-> "garbage", edits |-> <<>>]
    /\ intervalMs = 0
    /\ data = EmptyDoc
    /\ kibanaStatsFields = EmptyDoc
    /\ timestamp = 0
    /\ event = NoEvent
    /\ ret = Nil
    /\ rErrors = <<>>
    /\ rEvents = <<>>
    /\ trace = <<>>

\* The caller hands a reporter, an interval and a payload to eventMappingXPack.
Invoke ==
    /\ pc = "idle"
    /\ \E c \in Contents, i \in Intervals :
        /\ content' = c
        /\ intervalMs' = i
    /\ data' = EmptyDoc
    /\ kibanaStatsFields' = EmptyDoc
    /\ timestamp' = 0
    /\ event' = NoEvent
    /\ ret' = Nil
    /\ rErrors' = <<>>
    /\ rEvents' = <<>>
    /\ trace' = <<>>
    /\ pc' = "decode"

\* Lines 143-148.
Decode ==
    /\ pc = "decode"
    /\ LET r == Unmarshal(content) IN
        /\ data' = r.data
        /\ IF DecodeFailed(r.err)
           THEN rErrors' = ReportError(rErrors, r.err) /\ ret' = r.err /\ pc' = "returned"
           ELSE UNCHANGED <<rErrors, ret>> /\ pc' = "apply"
    /\ trace' = Append(trace, "decode")
    /\ UNCHANGED <<content, intervalMs, kibanaStatsFields, timestamp, event, rEvents>>

\* Lines 150-154.
ApplyStep ==
    /\ pc = "apply"
    /\ LET r == Apply(schemaXPackMonitoring, data) IN
        /\ kibanaStatsFields' = r.out
        /\ IF ApplyFailed(r.err)
           THEN rErrors' = ReportError(rErrors, r.err) /\ ret' = r.err /\ pc' = "returned"
           ELSE UNCHANGED <<rErrors, ret>> /\ pc' = "patch"
    /\ trace' = Append(trace, "apply")
    /\ UNCHANGED <<content, intervalMs, data, timestamp, event, rEvents>>

\* Lines 156-169.
Patch ==
    /\ pc = "patch"
    /\ LET bad == PatchFailure(data) IN
        IF bad # <<>>
        THEN /\ rErrors' = ReportErrorForMissingField(bad, rErrors).r
             /\ ret' = ReportErrorForMissingField(bad, rErrors).err
             /\ pc' = "returned"
             /\ UNCHANGED kibanaStatsFields
        ELSE /\ kibanaStatsFields' = PatchedFields(kibanaStatsFields, Rss(data))
             /\ pc' = "stamp"
             /\ UNCHANGED <<rErrors, ret>>
    /\ trace' = Append(trace, "patch")
    /\ UNCHANGED <<content, intervalMs, data, timestamp, event, rEvents>>

\* Lines 171-172.
Stamp ==
    /\ pc = "stamp"
    /\ \E t \in Times :
        /\ timestamp' = t
        /\ kibanaStatsFields' = StampedFields(kibanaStatsFields, t)
    /\ pc' = "assemble"
    /\ trace' = Append(trace, "stamp")
    /\ UNCHANGED <<content, intervalMs, data, event, ret, rErrors, rEvents>>

\* Lines 174-181.  The single-value type assertion of line 176 panics when
\* cluster_uuid is absent or not a string; the function does not recover, so
\* the invocation ends there without returning.
Assemble ==
    /\ pc = "assemble"
    /\ IF ClusterUuidIsString(data)
       THEN /\ event' = [event EXCEPT !.RootFields =
                            RootFields(data, timestamp, intervalMs, kibanaStatsFields)]
            /\ pc' = "dispatch"
       ELSE /\ pc' = "panicked"
            /\ UNCHANGED event
    /\ trace' = Append(trace, "assemble")
    /\ UNCHANGED <<content, intervalMs, data, kibanaStatsFields, timestamp, ret,
                   rErrors, rEvents>>

\* Lines 183-186.
Dispatch ==
    /\ pc = "dispatch"
    /\ event' = [event EXCEPT !.Index = MakeXPackMonitoringIndexName]
    /\ rEvents' = Append(rEvents, event')
    /\ ret' = Nil
    /\ pc' = "returned"
    /\ trace' = Append(trace, "dispatch")
    /\ UNCHANGED <<content, intervalMs, data, kibanaStatsFields, timestamp, rErrors>>

\* The collection cycle ends: the function has returned, and its reporter,
\* arguments and locals are dropped.  The function keeps nothing else.
EndCycle ==
    /\ pc = "returned"
    /\ pc' = "idle"
    /\ content' = [kind |-> "garbage", edits |-> <<>>]
    /\ intervalMs' = 0
    /\ data' = EmptyDoc
    /\ kibanaStatsFields' = EmptyDoc
    /\ timestamp' = 0
    /\ event' = NoEvent
    /\ ret' = Nil
    /\ rErrors' = <<>>
    /\ rEvents' = <<>>
    /\ trace' = <<>>

Next ==
    Invoke \/ Decode \/ ApplyStep \/ Patch \/ Stamp \/ Assemble \/ Dispatch \/ EndCycle

Spec == Init /\ [][Next]_vars


(***************************************************************************)
(* Properties.                                                             *)
(***************************************************************************)
StepOrder == <<"decode", "apply", "patch", "stamp", "assemble", "dispatch">>

Ended == pc \in {"returned", "panicked"}

\* The payload holds a numeric process.memory.resident_set_size_bytes.
RssExtractable == Has(data, RssPath) /\ Get(data, RssPath).t = "num"

\* applyErr is the error the schema yields for the decoded document.
OrderAndShortCircuit(applyErr) ==
    /\ Len(trace) <= Len(StepOrder)
    /\ \A i \in DOMAIN trace : trace[i] = StepOrder[i]
    /\ content.kind \in {"garbage", "array"} /\ trace # <<>> =>
            trace = <<"decode">> /\ pc = "returned"
    /\ Len(trace) >= 2 /\ applyErr # Nil =>
            trace = <<"decode", "apply">> /\ pc = "returned"
    /\ ret # Nil \/ rErrors # <<>> \/ pc = "panicked" => rEvents = <<>>
    /\ Len(rEvents) <= 1
    /\ rEvents # <<>> =>
            /\ trace = StepOrder
            /\ content.kind \in {"object", "null"}
            /\ applyErr = Nil
            /\ RssExtractable

\* C1: the steps of an invocation run in the fixed order decode, schema
\* application, patch extraction, metadata stamping, dispatch; a decode
\* failure ends it before Apply, an Apply error before the patch, and after
\* any failure no event is handed to r.Event, which is called at most once and
\* only after decode, Apply and the three extractions succeeded.
C1_FixedOrderShortCircuit ==
    OrderAndShortCircuit(Apply(schemaXPackMonitoring, data).err)

C1_Witness ==
    /\ pc = "returned"
    /\ trace = <<"decode", "apply">>
    /\ ret.kind = "schema"
    /\ rEvents = <<>>

\* C2: a payload that decodes, maps and patches but whose cluster_uuid is
\* absent or not a string ends the invocation with a returned error and no
\* event.
C2_IdentityFailureIsReturnedError ==
    Len(trace) >= 5 /\ ~IsStr(data, "cluster_uuid") =>
        pc = "returned" /\ ret # Nil /\ rEvents = <<>>

\* Every key of a document, at any depth.
RECURSIVE AllKeys(_)
AllKeys(f) ==
    DOMAIN f \cup UNION {AllKeys(f[k].v) : k \in {x \in DOMAIN f : f[x].t = "doc"}}

MetaKeys == {"timestamp", "interval_ms", "type", "cluster_uuid"}

\* C3 as stated: in every emitted event the four metadata fields are keys of
\* the root and none of them is a key of the kibana_stats document.
C3_MetaOnlyAtRoot ==
    \A n \in DOMAIN rEvents :
        LET root == rEvents[n].RootFields IN
        /\ MetaKeys \subseteq DOMAIN root
        /\ MetaKeys \cap DOMAIN root["kibana_stats"].v = {}

\* C3 as amended: the four metadata fields are keys of the root; interval_ms,
\* type and cluster_uuid are never keys of the mapped document, at any
\* depth and at any point of the invocation; timestamp is also written at the
\* top of the kibana_stats document, with the root's value.
C3_MetaAtRootTimestampAlsoInside ==
    /\ {"interval_ms", "type", "cluster_uuid"} \cap AllKeys(kibanaStatsFields) = {}
    /\ \A n \in DOMAIN rEvents :
        LET root == rEvents[n].RootFields IN
        /\ MetaKeys \subseteq DOMAIN root
        /\ {"interval_ms", "type", "cluster_uuid"} \cap AllKeys(root["kibana_stats"].v) = {}
        /\ "timestamp" \in DOMAIN root["kibana_stats"].v
        /\ root["kibana_stats"].v["timestamp"] = root["timestamp"]

C3_Witness ==
    /\ Len(rEvents) = 1
    /\ rEvents[1].RootFields["kibana_stats"].v["timestamp"] = TimeV(MaxTime)
    /\ rEvents[1].RootFields["cluster_uuid"] = Str("c1")

\* The path the manual patch is expected to report: the outermost of
\* process, process.memory, process.memory.resident_set_size_bytes that is
\* not a document, a document, a number; <<>> when all three are.
ExpectedPatchPath ==
    IF ~(Has(data, <<"process">>) /\ Get(data, <<"process">>).t = "doc")
    THEN <<"process">>
    ELSE IF ~(Has(data, <<"process", "memory">>)
              /\ Get(data, <<"process", "memory">>).t = "doc")
    THEN <<"process", "memory">>
    ELSE IF ~RssExtractable THEN RssPath
    ELSE <<>>

RssInBytesPath == <<"process", "memory", "resident_set_size_in_bytes">>

\* C4: once a decoded and mapped payload has reached the manual patch and one
\* of the three extractions fails, the invocation returns the error of the
\* outermost failing path, has written no resident_set_size_in_bytes and
\* hands no event to r.Event.
C4_PatchFailureIsHard ==
    Len(trace) >= 3 /\ ExpectedPatchPath # <<>> =>
        /\ pc = "returned"
        /\ trace = <<"decode", "apply", "patch">>
        /\ ret = MissingFieldError(ExpectedPatchPath)
        /\ ~Has(kibanaStatsFields, RssInBytesPath)
        /\ rEvents = <<>>

C4_Witness ==
    /\ pc = "returned"
    /\ trace = <<"decode", "apply", "patch">>
    /\ ret = MissingFieldError(RssPath)
    /\ Has(kibanaStatsFields, <<"process", "memory", "heap">>)

\* The sub-documents the schema declares optional, each with the path of the
\* key it would produce in the kibana_stats document.
OptionalSubsystems == {
    [src |-> <<"response_times">>, out |-> <<"response_times">>],
    [src |-> <<"usage", "reporting">>, out |-> <<"usage", "xpack", "reporting">>],
    [src |-> <<"usage", "reporting", "csv">>,
     out |-> <<"usage", "xpack", "reporting", "csv">>],
    [src |-> <<"usage", "reporting", "printable_pdf">>,
     out |-> <<"usage", "xpack", "reporting", "printable_pdf">>],
    [src |-> <<"usage", "reporting", "status">>,
     out |-> <<"usage", "xpack", "reporting", "status">>],
    [src |-> <<"usage", "reporting", "last_day">>,
     out |-> <<"usage", "xpack", "reporting", "lastDay">>],
    [src |-> <<"usage", "reporting", "last_7_days">>,
     out |-> <<"usage", "xpack", "reporting", "last7Days">>] }

\* The payload is the complete one with only optional sub-documents removed.
OnlyOptionalOmitted ==
    /\ content.kind = "object"
    /\ content.edits # <<>>
    /\ \A n \in DOMAIN content.edits :
        /\ content.edits[n].op = "del"
        /\ \E o \in OptionalSubsystems : o.src = content.edits[n].path

\* C5: a payload that is complete but for omitted optional sub-documents
\* ends with nil returned, no error reported and exactly one event, whose
\* kibana_stats document has no key for an omitted sub-document.
C5_OptionalSubsystemOmitted ==
    OnlyOptionalOmitted /\ Ended =>
        /\ pc = "returned"
        /\ ret = Nil
        /\ rErrors = <<>>
        /\ Len(rEvents) = 1
        /\ \A o \in OptionalSubsystems :
             ~Has(data, o.src) =>
                ~Has(rEvents[1].RootFields["kibana_stats"].v, o.out)

C5_Witness ==
    /\ pc = "returned"
    /\ content.kind = "object"
    /\ content.edits = <<Del(<<"usage", "reporting", "status">>), Del(<<"response_times">>)>>
    /\ ret = Nil
    /\ Len(rEvents) = 1
    /\ Has(rEvents[1].RootFields["kibana_stats"].v, <<"usage", "xpack", "reporting", "csv">>)

\* Every node of a schema: its absolute source path, the path of the key it
\* writes, the path of the document it is applied to, its kind and whether
\* it is optional.
RECURSIVE SchemaNodes(_, _, _)
SchemaNodes(schema, src, out) ==
    UNION {
        (IF schema[i].m.kind = "Object" THEN {}
         ELSE {[src |-> src \o schema[i].m.key, out |-> out \o <<schema[i].name>>,
                parent |-> src, kind |-> schema[i].m.kind,
                optional |-> schema[i].m.optional]})
        \cup SchemaNodes(schema[i].m.child, src \o schema[i].m.key,
                         out \o <<schema[i].name>>)
        : i \in DOMAIN schema }

Nodes == SchemaNodes(schemaXPackMonitoring, <<>>, <<>>)

\* The node is applied: the document it reads exists.
Reached(n) == Has(data, n.parent) /\ Get(data, n.parent).t = "doc"

Present(n) == Has(data, n.src)

Compatible(n) ==
    LET x == Get(data, n.src) IN
    CASE n.kind = "Dict" -> x.t = "doc"
      [] n.kind \in {"Int", "Float"} -> x.t = "num"
      [] n.kind = "String" -> x.t = "str"
      [] n.kind = "Bool" -> x.t = "bool"

\* The error list of the schema application, once Apply has run.
ApplyErrs == IF ret.kind = "schema" THEN ret.errs ELSE <<>>

JustApplied == trace = <<"decode", "apply">>

\* C7: schema application never aborts early: every applied node that is
\* present and type-compatible is written to the output whatever failed
\* beside it, every applied node that fails (absent and required, or of the
\* wrong kind) adds exactly one error, and the partial output comes back
\* together with the aggregate error.
C7_BestEffort ==
    JustApplied =>
        /\ \A n \in Nodes :
            Reached(n) /\ Present(n) /\ Compatible(n) => Has(kibanaStatsFields, n.out)
        /\ Len(ApplyErrs) =
            Cardinality({n \in Nodes :
                /\ Reached(n)
                /\ \/ ~Present(n) /\ ~n.optional
                   \/ Present(n) /\ ~Compatible(n)})
        /\ ret = Nil <=> ApplyErrs = <<>>

C7_Witness ==
    /\ JustApplied
    /\ content.edits = <<Del(<<"kibana", "uuid">>)>>
    /\ Len(ApplyErrs) = 1
    /\ Get(kibanaStatsFields, <<"kibana", "name">>) = Str("kibana")
    /\ Has(kibanaStatsFields, <<"usage", "index_pattern", "total">>)

\* C8: for every applied node whose source key is absent the output has no
\* key for it; when the node is optional no error carries its path, when it
\* is required exactly one error does, a MissingField with the path absolute
\* from the document root.
C8_Optionality ==
    JustApplied =>
        \A n \in Nodes :
            Reached(n) /\ ~Present(n) =>
                /\ ~Has(kibanaStatsFields, n.out)
                /\ LET hits == {i \in DOMAIN ApplyErrs : ApplyErrs[i].path = n.src}
                   IN  IF n.optional THEN hits = {}
                       ELSE /\ Cardinality(hits) = 1
                            /\ \A i \in hits : ApplyErrs[i].cause = "MissingField"

C8_Witness ==
    /\ JustApplied
    /\ content.edits = <<Del(<<"response_times">>), Del(<<"usage", "kibana", "index_pattern">>)>>
    /\ ApplyErrs = <<FieldError(<<"usage", "kibana", "index_pattern">>, "MissingField")>>
    /\ ~Has(kibanaStatsFields, <<"usage", "index_pattern">>)
    /\ ~Has(kibanaStatsFields, <<"response_times">>)
    /\ Has(kibanaStatsFields, <<"usage", "search">>)

\* C9: every successful invocation emits one event whose root holds the
\* payload's cluster_uuid, the intervalMs argument as interval_ms, the type
\* "kibana_stats", and a kibana_stats document where
\* process.memory.resident_set_size_in_bytes is the payload's
\* resident_set_size_bytes truncated toward zero, beside the three
\* process.memory.heap fields the schema produced.
C9_Composition ==
    pc = "returned" /\ ret = Nil =>
        /\ Len(rEvents) = 1
        /\ LET root == rEvents[1].RootFields
               ks == root["kibana_stats"].v
               rss == Get(data, RssPath).v
               k == Get(ks, RssInBytesPath)
           IN  /\ root["cluster_uuid"] = data["cluster_uuid"]
               /\ root["cluster_uuid"].t = "str"
               /\ root["interval_ms"] = IntV(intervalMs)
               /\ root["type"] = Str("kibana_stats")
               /\ Has(ks, RssInBytesPath)
               /\ k.t = "int"
               /\ rss >= 0 => k.v * 10 <= rss /\ rss < (k.v + 1) * 10
               /\ rss < 0 => k.v * 10 >= rss /\ rss > (k.v - 1) * 10
               /\ \A h \in {"total_in_bytes", "used_in_bytes", "size_limit"} :
                    /\ Has(ks, <<"process", "memory", "heap", h>>)
                    /\ Get(ks, <<"process", "memory", "heap", h>>).t = "int"

C9_Witness ==
    /\ pc = "returned"
    /\ ret = Nil
    /\ Get(data, RssPath) = Num(-15)
    /\ Get(rEvents[1].RootFields["kibana_stats"].v, RssInBytesPath) = IntV(-1)
    /\ intervalMs = 10000

\* C10: every invocation ends either with nil returned, one event and no
\* reported error, or with an error returned, that error reported exactly
\* once and no event.
C10_OneOfTwoOutcomes ==
    Ended =>
        \/ /\ pc = "returned" /\ ret = Nil
           /\ Len(rEvents) = 1 /\ rErrors = <<>>
        \/ /\ pc = "returned" /\ ret # Nil
           /\ rErrors = <<ret>> /\ rEvents = <<>>


====
